---- MODULE Spec2Model ----
(***************************************************************************)
(* Model of the join combinators of package await (src/await.go, the       *)
(* second, Result-returning definition of the package: lines 186-330):     *)
(*   All  - launches one unit per task, waits for all, returns []Result    *)
(*   Any  - returns the first success, or an AggregateError                *)
(*   Race - returns the first outcome deposited                            *)
(* One behaviour of the model is one call of one combinator, together with *)
(* the units (goroutines) it launches and a caller that may cancel the     *)
(* scope it passed at any moment.                                          *)
(***************************************************************************)
EXTENDS Integers, Sequences, FiniteSets, TLC

\* Largest number of tasks handed to one call.
MaxTasks == 3

----------------------------------------------------------------------------
(* Values and errors *)

\* The nil error.
Nil == "nil"

\* errors.go:11
ErrNoTasks == "no tasks provided"

\* context.Canceled and context.DeadlineExceeded: what Err() of a cancelled
\* scope yields (WithCancel, part_002:119; WithTimeout, part_002:139).
Canceled == "context canceled"
DeadlineExceeded == "context deadline exceeded"
CtxErrors == {Canceled, DeadlineExceeded}

\* Name under which a returned *AggregateError is recorded in retErr; its
\* Errors field is retAgg.
AggregateError == "AggregateError"

\* The zero value of T (T = int in the tests).
Zero == 0

\* The error task i fails with, and the non-zero value it may return.
TaskErr(i) == "error " \o ToString(i)
TaskVal(i) == 10 * i

\* A task: returns (val, err); a scope-aware task returns (zero, ctx.Err())
\* instead when its scope is cancelled at the moment it settles. The shapes
\* are those of the package's tests: a success (part_002:14-16), a failure
\* with the zero value (part_002:38-40), a failure that also returns a value
\* (part_002:69-71), and a scope-aware success (part_002:142-149).
TaskSpace(i) ==
    { [val |-> TaskVal(i), err |-> Nil,        aware |-> FALSE],
      [val |-> Zero,       err |-> TaskErr(i), aware |-> FALSE],
      [val |-> TaskVal(i), err |-> TaskErr(i), aware |-> FALSE],
      [val |-> TaskVal(i), err |-> Nil,        aware |-> TRUE] }

TaskSeqs(k) == { s \in [1..k -> UNION { TaskSpace(i) : i \in 1..k }] :
                   \A i \in 1..k : s[i] \in TaskSpace(i) }

\* What task t returns when the scope it was given reports ctxErr.
TaskOutcome(t, ctxErr) ==
    IF t.aware /\ ctxErr # Nil
    THEN [val |-> Zero, err |-> ctxErr]
    ELSE [val |-> t.val, err |-> t.err]

\* Result[T]{Value, Err}
Result(v, e) == [Value |-> v, Err |-> e]

----------------------------------------------------------------------------
\* Package retry: errors, strategies and options of Do.

\* Largest MaxAttempts tried.
MaxAttemptsBound == 3

\* A user ShouldRetryFunc of the form attempt < AttemptLimit.
AttemptLimit == 2

\* Errors of package retry are records: the nil error, errors made by
\* errors.New (equal only to themselves), *PermanentError and *RetryError.
NilErr == [kind |-> "nil"]
Leaf(name) == [kind |-> "leaf", name |-> name]

ErrMaxAttemptsInvalid == Leaf("max attempts must be greater than 0")
ErrPermanent == Leaf("permanent error")

\* &RetryError{LastError, Attempts}
RetryError(lastError, attempts) ==
    [kind |-> "retry", LastError |-> lastError, Attempts |-> attempts]

\* &PermanentError{Err}
PermanentError(err) == [kind |-> "permanent", Err |-> err]

\* Variant of Permanent: the error is handed back without the marker.
PermanentUnmarked(err) == err

\* Permanent(err): nil stays nil, any other error is wrapped.
Permanent(err) == IF err = NilErr THEN NilErr ELSE PermanentError(err)

\* errors.Is(err, target): err or an error in its Unwrap chain equals
\* target, or has an Is method that accepts target (PermanentError.Is).
RECURSIVE Is(_, _)
Is(err, target) ==
    IF err = target THEN TRUE
    ELSE IF err.kind = "permanent"
         THEN target = ErrPermanent \/ Is(err.Err, target)
    ELSE IF err.kind = "retry" THEN Is(err.LastError, target)
    ELSE FALSE

\* Variant of IsPermanentError: no error counts as permanent.
IsPermanentErrorNever(err) == FALSE

IsPermanentError(err) == Is(err, ErrPermanent)

\* The scope's Err() as an error of this package.
CtxErr(e) == Leaf(e)
DoCtxErrors == { CtxErr(e) : e \in CtxErrors }

\* Errors of the tasks given to Do (retry_test.go:175-176, 123).
ErrRetryThis == Leaf("retry this")
ErrDontRetry == Leaf("don't retry this")
DoTaskErrors == { ErrRetryThis, ErrDontRetry, Permanent(ErrRetryThis) }

\* What invocation k of the task may return: a value with a nil error, or
\* the zero value with one of the task's errors.
SuccessVal(k) == 40 + k
DoOutcomes(k) ==
    { [val |-> SuccessVal(k), err |-> NilErr] }
      \cup { [val |-> Zero, err |-> e] : e \in DoTaskErrors }

\* Strategies.  A duration is a time.Duration, a whole number of
\* nanoseconds; a Multiplier is a fraction num/den with den > 0.
ExponentialBackoff(initialDelay, multiplier, maxDelay) ==
    [type |-> "ExponentialBackoff", InitialDelay |-> initialDelay,
     Multiplier |-> multiplier, MaxDelay |-> maxDelay]
LinearBackoff(initialDelay, increment) ==
    [type |-> "LinearBackoff", InitialDelay |-> initialDelay,
     Increment |-> increment]
ConstantDelay(dl) == [type |-> "ConstantDelay", Delay |-> dl]
NoDelay == [type |-> "NoDelay"]
CustomStrategy(delayFunc, shouldRetryFunc) ==
    [type |-> "CustomStrategy", DelayFunc |-> delayFunc,
     ShouldRetryFunc |-> shouldRetryFunc]

\* time.Duration(float64(delay) * Multiplier): the product, with its
\* fraction cut off (towards zero).
Scale(dl, multiplier) ==
    LET p == dl * multiplier.num
    IN  IF p >= 0 THEN p \div multiplier.den
        ELSE 0 - ((0 - p) \div multiplier.den)

\* Variant of ExpLoop: the delay is never clamped to MaxDelay.
RECURSIVE ExpLoopUnclamped(_, _, _, _)
ExpLoopUnclamped(e, i, n, dl) ==
    IF i >= n THEN dl
    ELSE ExpLoopUnclamped(e, i + 1, n, Scale(dl, e.Multiplier))

\* The loop of ExponentialBackoff.NextDelay from step i on.
RECURSIVE ExpLoop(_, _, _, _)
ExpLoop(e, i, n, dl) ==
    IF i >= n THEN dl
    ELSE LET sc == Scale(dl, e.Multiplier)
         IN  IF e.MaxDelay > 0 /\ sc > e.MaxDelay
             THEN e.MaxDelay
             ELSE ExpLoop(e, i + 1, n, sc)

\* The user functions a CustomStrategy is given here: a DelayFunc that
\* returns attempt * 100ms (retry_test.go:278-280) and ShouldRetryFuncs that
\* bound the attempt (retry_test.go:281-284), refuse everything, or refuse
\* permanent errors.
DelayFuncs == { "nil", "attempt" }
ShouldRetryFuncs == { "nil", "attemptBelowLimit", "never", "notPermanent" }

CallShouldRetryFunc(f, n, err) ==
    CASE f = "attemptBelowLimit" -> n < AttemptLimit
      [] f = "never" -> FALSE
      [] f = "notPermanent" -> ~IsPermanentError(err)

\* Strategy.NextDelay(attempt)
NextDelay(st, n) ==
    CASE st.type = "ExponentialBackoff" ->
           IF n <= 0 THEN 0 ELSE ExpLoop(st, 1, n, st.InitialDelay)
      [] st.type = "LinearBackoff" ->
           IF n <= 0 THEN 0
           ELSE st.InitialDelay + (n - 1) * st.Increment
      [] st.type = "ConstantDelay" ->
           IF n <= 0 THEN 0 ELSE st.Delay
      [] st.type = "NoDelay" -> 0
      [] st.type = "CustomStrategy" ->
           IF st.DelayFunc = "nil" THEN 0 ELSE n

\* Variant of ShouldRetry: no strategy ever refuses.
ShouldRetryAlways(st, n, err) == TRUE

\* Strategy.ShouldRetry(attempt, err)
ShouldRetry(st, n, err) ==
    IF st.type = "CustomStrategy"
    THEN IF st.ShouldRetryFunc = "nil" THEN TRUE
         ELSE CallShouldRetryFunc(st.ShouldRetryFunc, n, err)
    ELSE ~IsPermanentError(err)

BuiltinStrategies ==
    { ExponentialBackoff(1, [num |-> 2, den |-> 1], 3),
      LinearBackoff(1, 1), ConstantDelay(1), NoDelay }
CustomStrategies ==
    { CustomStrategy(d, f) : d \in DelayFuncs, f \in ShouldRetryFuncs }
Strategies == BuiltinStrategies \cup CustomStrategies

\* RetryIf(errs...): the predicate is kept as the set of its targets.
RetryIf(errs) == [isNil |-> FALSE, errs |-> errs]
NilRetryIf == [isNil |-> TRUE, errs |-> {}]
CallRetryIf(pred, err) == \E e \in pred.errs : Is(err, e)

Predicates ==
    { NilRetryIf } \cup { RetryIf(es) : es \in SUBSET { ErrRetryThis, ErrDontRetry } }

\* Options{Strategy, MaxAttempts, OnRetry, RetryIf}; OnRetry is nil or a
\* function that records its arguments.
OptionsSpace ==
    [Strategy : Strategies, MaxAttempts : (0 - 1)..MaxAttemptsBound,
     OnRetry : { "nil", "record" }, RetryIf : Predicates]

DefaultOptions ==
    [Strategy |-> ExponentialBackoff(1, [num |-> 2, den |-> 1], 300),
     MaxAttempts |-> 3, OnRetry |-> "nil", RetryIf |-> NilRetryIf]

\* Variant of shouldRetryError: the predicate is not consulted.
shouldRetryErrorAlways(o, err) == TRUE

shouldRetryError(o, err) ==
    IF o.RetryIf.isNil THEN TRUE ELSE CallRetryIf(o.RetryIf, err)

\* Variant of isLastAttempt: the last attempt is not recognised in time.
isLastAttemptLate(a, maxAttempts) == a > maxAttempts

isLastAttempt(a, maxAttempts) == a >= maxAttempts

calculateDelay(o, a) == NextDelay(o.Strategy, a)

----------------------------------------------------------------------------
VARIABLES
    fn,          \* the combinator called: "All", "Any" or "Race"
    tasks,       \* the tasks passed, in input order
    scope,       \* [caller, derived]: Err() of the caller's scope and of the
                 \* scope Any/Race derive from it (Nil: not cancelled)
    cancelCalled,\* Any/Race: the cancel function of the derived scope was called
    mainpc,      \* the call: "idle", "wait" (wg.Wait / <-ch), "returned"
    upc,         \* per unit: "idle", "spawned", "running", "settled", "done"
    treturn,     \* per unit: what its task returned (only read by Race's select
                 \* and by the properties); "none" before
    results,     \* All: the per-index result storage
    ch,          \* Any/Race: the buffered channel, oldest deposit first
    recvd,       \* Any/Race: the deposits the call has received, in order
    errors,      \* Any: the errors collected so far
    retVal,      \* returned value (Any/Race)
    retErr,      \* returned function-level error
    retAgg,      \* Errors of the returned AggregateError
    retResults,  \* returned slice (All); <<>> is the nil slice
    ctxAtCall,   \* Err() of the caller's scope at the moment of the call
                 \* ("none" before the call; read by the properties)
    completed,   \* All: the units in the order they finished (read by the
                 \* properties only)
    opts,        \* Do: the Options passed
    ctx,         \* Do: Err() of the scope passed (NilErr: not cancelled)
    dopc,        \* Do: "idle", "top" (head of the loop), "running" (inside
                 \* fn), "waiting" (inside waitForRetry), "returned"
    attempt,     \* Do: the loop variable
    lastErr,     \* Do: the error of the last failed invocation
    delay,       \* Do: the delay of the wait in progress
    calls,       \* Do: what the invocations of fn returned, in order
    onRetryCalls,\* Do: the arguments of the OnRetry calls, in order
    trace,       \* Do: the decisions consulted after each failure, in order
                 \* (read by the properties only)
    doRet,       \* Do: the returned value and error
    cancelAt,    \* Do: where Do stood when the scope was cancelled (read by
                 \* the properties only)
    strategy,    \* a Strategy value whose methods are called directly
    call         \* the last call of a method of strategy: its arguments and
                 \* what it returned

doVars == <<opts, ctx, dopc, attempt, lastErr, delay, calls, onRetryCalls,
            trace, doRet, cancelAt>>

awaitVars == <<fn, tasks, scope, cancelCalled, mainpc, upc, treturn, results,
               ch, recvd, errors, retVal, retErr, retAgg, retResults,
               ctxAtCall, completed>>

stratVars == <<strategy, call>>

vars == <<awaitVars, doVars, stratVars>>

NoCall == [method |-> "none", attempt |-> 0, err |-> NilErr, dl |-> 0,
           ok |-> FALSE]

\* No method of a strategy is called directly.
StrategyIdle ==
    /\ strategy = NoDelay
    /\ call = NoCall

NoDoReturn == [val |-> Zero, err |-> Leaf("none")]
NotCancelled == [pc |-> "none", calls |-> 0, delay |-> 0]

\* The state before Do is called with options o.
DoIdle(o) ==
    /\ opts = o
    /\ ctx = NilErr
    /\ dopc = "idle"
    /\ attempt = 0
    /\ lastErr = NilErr
    /\ delay = 0
    /\ calls = <<>>
    /\ onRetryCalls = <<>>
    /\ trace = <<>>
    /\ doRet = NoDoReturn
    /\ cancelAt = NotCancelled

N == Len(tasks)
Units == 1..N

NoReturn == [val |-> Zero, err |-> "none"]

Init ==
    /\ fn \in {"All", "Any", "Race"}
    /\ tasks \in UNION { TaskSeqs(k) : k \in 0..MaxTasks }
    /\ scope = [caller |-> Nil, derived |-> Nil]
    /\ cancelCalled = FALSE
    /\ mainpc = "idle"
    /\ upc = [i \in 1..Len(tasks) |-> "idle"]
    /\ treturn = [i \in 1..Len(tasks) |-> NoReturn]
    /\ results = <<>>
    /\ ch = <<>>
    /\ recvd = <<>>
    /\ errors = <<>>
    /\ retVal = Zero
    /\ retErr = Nil
    /\ retAgg = <<>>
    /\ retResults = <<>>
    /\ ctxAtCall = "none"
    /\ completed = <<>>
    /\ DoIdle(DefaultOptions)
    /\ StrategyIdle

----------------------------------------------------------------------------
(* Cancellation scopes *)

\* The scope the units of the call check and hand to their tasks: All passes
\* the caller's scope on (await.go:231-238), Any and Race the derived one
\* (await.go:257, 301 shadow ctx).
UnitCtxErr == IF fn = "All" THEN scope.caller ELSE scope.derived

\* context.WithCancel(ctx): the derived scope is cancelled from the start
\* when the caller's already is, with the caller's error.
WithCancel(c) == [c EXCEPT !.derived = c.caller]

\* Variant of cancel: no scope of its own was derived, the cancel function
\* is the one of the scope the caller passed.
cancelCaller(c) ==
    [caller  |-> IF c.caller = Nil THEN Canceled ELSE c.caller,
     derived |-> IF c.derived = Nil THEN Canceled ELSE c.derived]

\* The cancel function WithCancel returned: cancels the derived scope only,
\* and only the first cancellation sets its error.
cancel(c) == [c EXCEPT !.derived = IF @ = Nil THEN Canceled ELSE @]

\* A derived scope exists once Any/Race passed the empty-input test.
DerivedExists == fn \in {"Any", "Race"} /\ mainpc # "idle" /\ N > 0

\* The caller cancels the scope it passed (or its deadline passes); the
\* cancellation propagates to a derived scope that is not cancelled yet.
CallerCancel ==
    /\ fn \in {"All", "Any", "Race", "AllTogether"}
    /\ scope.caller = Nil
    /\ \E e \in CtxErrors :
         scope' = [caller  |-> e,
                   derived |-> IF DerivedExists /\ scope.derived = Nil
                               THEN e ELSE scope.derived]
    /\ UNCHANGED <<doVars, stratVars>>
    /\ UNCHANGED <<fn, tasks, cancelCalled, mainpc, upc, treturn, results, ch,
                   recvd, errors, retVal, retErr, retAgg, retResults,
                   ctxAtCall, completed>>

\* Variant of EmptyError: the empty call fails with an AggregateError
\* without errors.
EmptyErrorAggregate == AggregateError

\* Variant of EmptyError: the empty call succeeds, as in the package's
\* earlier All (await.go:29-31, return []T{}, nil).
EmptyErrorNil == Nil

\* The error of a call with no tasks (await.go:217-219, 253-255, 297-299).
EmptyError == ErrNoTasks

\* Variant of ChanCap: a channel with a single slot.
ChanCapOne == IF N > 0 THEN 1 ELSE 0

\* make(chan result, len(tasks)): the capacity of the channel of Any and
\* Race (await.go:265, 309).
ChanCap == N

\* return v, e (agg: the Errors of e when e is an *AggregateError; rs: the
\* Result slice of All).
Return(v, e, agg, rs) ==
    /\ mainpc' = "returned"
    /\ retVal' = v
    /\ retErr' = e
    /\ retAgg' = agg
    /\ retResults' = rs

\* Variant of Launch: no unit is launched.
LaunchNone == UNCHANGED upc

\* for ... { go func(...) }: every unit is launched.
Launch == upc' = [i \in Units |-> "spawned"]

----------------------------------------------------------------------------
(* All, await.go:215-246 *)

\* Variant of Slot: every unit writes the slot of the loop's last index (the
\* closure reads the loop variable instead of its own idx).
SlotShared(idx) == N

\* results[idx]: the slot unit idx writes.
Slot(idx) == idx

\* Variant of AllError: the fail-together policy, an AggregateError as soon
\* as one slot holds an error.
AllErrorFailTogether(rs) ==
    IF \E i \in DOMAIN rs : rs[i].Err # Nil THEN AggregateError ELSE Nil

\* The function-level error of a call that ran its tasks: always nil.
AllError(rs) == Nil

\* Variant of AllUnitSkips: a unit does not check the scope at all.
AllUnitSkipsNever(i) == FALSE

\* Variant of AllUnitSkips: fail-fast, a unit also skips its task once the
\* slot of another task holds an error.
AllUnitSkipsAfterFailure(i) ==
    scope.caller # Nil \/ \E j \in Units : results[j].Err # Nil

\* case <-ctx.Done(): whether unit i finds the scope cancelled and skips
\* its task (await.go:233-236).
AllUnitSkips(i) == scope.caller # Nil

\* Variant of AllCtxError: the scope is not looked at before the units are
\* launched, as in the package's earlier All (await.go:28-37).
AllCtxErrorIgnored == Nil

\* ctx.Err() as All reads it before starting (await.go:222-223).
AllCtxError == scope.caller

AllCall ==
    /\ fn = "All" /\ mainpc = "idle"
    /\ ctxAtCall' = scope.caller
    /\ IF N = 0
       THEN /\ Return(Zero, EmptyError, <<>>, <<>>)
            /\ UNCHANGED <<upc, results>>
       ELSE IF AllCtxError # Nil
       THEN /\ Return(Zero, AllCtxError, <<>>, <<>>)
            /\ UNCHANGED <<upc, results>>
       ELSE /\ results' = [i \in Units |-> Result(Zero, Nil)]
            /\ Launch
            /\ mainpc' = "wait"
            /\ UNCHANGED <<retVal, retErr, retAgg, retResults>>
    /\ UNCHANGED <<doVars, stratVars>>
    /\ UNCHANGED <<fn, tasks, scope, cancelCalled, treturn, ch, recvd, errors,
                   completed>>

\* The unit's select: a cancelled scope is recorded without invoking the task.
AllUnitStart(i) ==
    /\ fn = "All" /\ upc[i] = "spawned"
    /\ IF AllUnitSkips(i)
       THEN /\ results' = [results EXCEPT ![Slot(i)] = Result(Zero, scope.caller)]
            /\ upc' = [upc EXCEPT ![i] = "done"]
            /\ completed' = Append(completed, i)
       ELSE /\ upc' = [upc EXCEPT ![i] = "running"]
            /\ UNCHANGED <<results, completed>>
    /\ UNCHANGED <<doVars, stratVars>>
    /\ UNCHANGED <<fn, tasks, scope, cancelCalled, mainpc, treturn, ch, recvd,
                   errors, retVal, retErr, retAgg, retResults, ctxAtCall>>

\* val, err := task(ctx); results[idx] = Result[T]{Value: val, Err: err}; wg.Done()
AllUnitFinish(i) ==
    /\ fn = "All" /\ upc[i] = "running"
    /\ LET o == TaskOutcome(tasks[i], scope.caller) IN
         /\ treturn' = [treturn EXCEPT ![i] = o]
         /\ results' = [results EXCEPT ![Slot(i)] = Result(o.val, o.err)]
    /\ upc' = [upc EXCEPT ![i] = "done"]
    /\ completed' = Append(completed, i)
    /\ UNCHANGED <<doVars, stratVars>>
    /\ UNCHANGED <<fn, tasks, scope, cancelCalled, mainpc, ch, recvd, errors,
                   retVal, retErr, retAgg, retResults, ctxAtCall>>

\* wg.Wait(); return results, nil
AllReturn ==
    /\ fn = "All" /\ mainpc = "wait"
    /\ \A i \in Units : upc[i] = "done"
    /\ Return(Zero, AllError(results), <<>>, results)
    /\ UNCHANGED <<doVars, stratVars>>
    /\ UNCHANGED <<fn, tasks, scope, cancelCalled, upc, treturn, results, ch,
                   recvd, errors, ctxAtCall, completed>>

----------------------------------------------------------------------------
(* Any, await.go:251-291 *)

\* A deposit on the channel; idx (the depositing unit) is not in the code's
\* result struct and is read by the properties only.
Msg(i, v, e) == [idx |-> i, val |-> v, err |-> e]

\* Variant of AnySucceeded: the first result received ends the loop, as in
\* Race.
AnySucceededAlways(res) == TRUE

\* if res.err == nil
AnySucceeded(res) == res.err = Nil

\* Variant of AppendError: the newest error is put first.
PrependError(errs, res) == <<res.err>> \o errs

\* errors = append(errors, res.err)
AppendError(errs, res) == Append(errs, res.err)

\* Variant of AnyCancels: cancel() on every result received, as in Race.
AnyCancelsAlways(res, last) == TRUE

\* Whether cancel runs on receiving res: cancel() on a success
\* (await.go:284), the deferred cancel when the loop ends (last).
AnyCancels(res, last) == AnySucceeded(res) \/ last

AnyCall ==
    /\ fn = "Any" /\ mainpc = "idle"
    /\ ctxAtCall' = scope.caller
    /\ IF N = 0
       THEN /\ Return(Zero, EmptyError, <<>>, <<>>)
            /\ UNCHANGED <<scope, upc>>
       ELSE /\ scope' = WithCancel(scope)
            /\ Launch
            /\ mainpc' = "wait"
            /\ UNCHANGED <<retVal, retErr, retAgg, retResults>>
    /\ UNCHANGED <<doVars, stratVars>>
    /\ UNCHANGED <<fn, tasks, cancelCalled, treturn, results, ch, recvd, errors,
                   completed>>

AnyUnitStart(i) ==
    /\ fn = "Any" /\ upc[i] = "spawned"
    /\ IF scope.derived # Nil
       THEN /\ Len(ch) < ChanCap
            /\ ch' = Append(ch, Msg(i, Zero, scope.derived))
            /\ upc' = [upc EXCEPT ![i] = "done"]
       ELSE /\ upc' = [upc EXCEPT ![i] = "running"]
            /\ UNCHANGED ch
    /\ UNCHANGED <<doVars, stratVars>>
    /\ UNCHANGED <<fn, tasks, scope, cancelCalled, mainpc, treturn, results,
                   recvd, errors, retVal, retErr, retAgg, retResults,
                   ctxAtCall, completed>>

\* val, err := task(ctx); ch <- result{val, err}
AnyUnitFinish(i) ==
    /\ fn = "Any" /\ upc[i] = "running"
    /\ Len(ch) < ChanCap
    /\ LET o == TaskOutcome(tasks[i], scope.derived) IN
         /\ treturn' = [treturn EXCEPT ![i] = o]
         /\ ch' = Append(ch, Msg(i, o.val, o.err))
    /\ upc' = [upc EXCEPT ![i] = "done"]
    /\ UNCHANGED <<doVars, stratVars>>
    /\ UNCHANGED <<fn, tasks, scope, cancelCalled, mainpc, results, recvd,
                   errors, retVal, retErr, retAgg, retResults, ctxAtCall,
                   completed>>

\* One iteration of the receive loop, with the return that ends it.
AnyReceive ==
    /\ fn = "Any" /\ mainpc = "wait"
    /\ ch # <<>>
    /\ LET res  == Head(ch)
           errs == AppendError(errors, res)
           last == ~AnySucceeded(res) /\ Len(recvd) + 1 = N
       IN /\ ch' = Tail(ch)
          /\ recvd' = Append(recvd, res)
          /\ IF AnyCancels(res, last)
             THEN scope' = cancel(scope) /\ cancelCalled' = TRUE
             ELSE UNCHANGED <<scope, cancelCalled>>
          /\ IF AnySucceeded(res)
             THEN /\ Return(res.val, Nil, <<>>, <<>>)
                  /\ UNCHANGED errors
             ELSE /\ errors' = errs
                  /\ IF last
                     THEN Return(Zero, AggregateError, errs, <<>>)
                     ELSE UNCHANGED <<mainpc, retVal, retErr, retAgg, retResults>>
    /\ UNCHANGED <<doVars, stratVars>>
    /\ UNCHANGED <<fn, tasks, upc, treturn, results, ctxAtCall, completed>>

----------------------------------------------------------------------------
(* Race, await.go:295-330 *)

\* Variant of RaceResult: a failure is returned with the zero value.
RaceResultZeroOnError(res) == <<IF res.err # Nil THEN Zero ELSE res.val, res.err>>

\* return res.val, res.err
RaceResult(res) == <<res.val, res.err>>

\* Variant of RaceCancels: cancel() on a success only, as in Any, and no
\* deferred cancel.
RaceCancelsOnSuccess(res) == res.err = Nil

\* Whether cancel runs once res is received: cancel() at await.go:328 (and
\* the deferred one), whatever res is.
RaceCancels(res) == TRUE

RaceCall ==
    /\ fn = "Race" /\ mainpc = "idle"
    /\ ctxAtCall' = scope.caller
    /\ IF N = 0
       THEN /\ Return(Zero, EmptyError, <<>>, <<>>)
            /\ UNCHANGED <<scope, upc>>
       ELSE /\ scope' = WithCancel(scope)
            /\ Launch
            /\ mainpc' = "wait"
            /\ UNCHANGED <<retVal, retErr, retAgg, retResults>>
    /\ UNCHANGED <<doVars, stratVars>>
    /\ UNCHANGED <<fn, tasks, cancelCalled, treturn, results, ch, recvd, errors,
                   completed>>

RaceUnitStart(i) ==
    /\ fn = "Race" /\ upc[i] = "spawned"
    /\ IF scope.derived # Nil
       THEN /\ Len(ch) < ChanCap
            /\ ch' = Append(ch, Msg(i, Zero, scope.derived))
            /\ upc' = [upc EXCEPT ![i] = "done"]
       ELSE /\ upc' = [upc EXCEPT ![i] = "running"]
            /\ UNCHANGED ch
    /\ UNCHANGED <<doVars, stratVars>>
    /\ UNCHANGED <<fn, tasks, scope, cancelCalled, mainpc, treturn, results,
                   recvd, errors, retVal, retErr, retAgg, retResults,
                   ctxAtCall, completed>>

\* val, err := task(ctx)
RaceTaskReturn(i) ==
    /\ fn = "Race" /\ upc[i] = "running"
    /\ treturn' = [treturn EXCEPT ![i] = TaskOutcome(tasks[i], scope.derived)]
    /\ upc' = [upc EXCEPT ![i] = "settled"]
    /\ UNCHANGED <<doVars, stratVars>>
    /\ UNCHANGED <<fn, tasks, scope, cancelCalled, mainpc, results, ch, recvd,
                   errors, retVal, retErr, retAgg, retResults, ctxAtCall,
                   completed>>

\* select { case ch <- result{val, err}: case <-ctx.Done(): }
\* With the scope cancelled both cases are ready and either may be taken.
RaceUnitSelect(i) ==
    /\ fn = "Race" /\ upc[i] = "settled"
    /\ \/ /\ Len(ch) < ChanCap
          /\ ch' = Append(ch, Msg(i, treturn[i].val, treturn[i].err))
       \/ /\ scope.derived # Nil
          /\ UNCHANGED ch
    /\ upc' = [upc EXCEPT ![i] = "done"]
    /\ UNCHANGED <<doVars, stratVars>>
    /\ UNCHANGED <<fn, tasks, scope, cancelCalled, mainpc, treturn, results,
                   recvd, errors, retVal, retErr, retAgg, retResults,
                   ctxAtCall, completed>>

\* res := <-ch; cancel(); return res.val, res.err
RaceReceive ==
    /\ fn = "Race" /\ mainpc = "wait"
    /\ ch # <<>>
    /\ LET res == Head(ch) IN
          /\ ch' = Tail(ch)
          /\ recvd' = Append(recvd, res)
          /\ IF RaceCancels(res)
             THEN scope' = cancel(scope) /\ cancelCalled' = TRUE
             ELSE UNCHANGED <<scope, cancelCalled>>
          /\ Return(RaceResult(res)[1], RaceResult(res)[2], <<>>, <<>>)
    /\ UNCHANGED <<doVars, stratVars>>
    /\ UNCHANGED <<fn, tasks, upc, treturn, results, errors, ctxAtCall,
                   completed>>

----------------------------------------------------------------------------
Next ==
    \/ CallerCancel
    \/ AllCall
    \/ \E i \in Units : AllUnitStart(i)
    \/ \E i \in Units : AllUnitFinish(i)
    \/ AllReturn
    \/ AnyCall
    \/ \E i \in Units : AnyUnitStart(i)
    \/ \E i \in Units : AnyUnitFinish(i)
    \/ AnyReceive
    \/ RaceCall
    \/ \E i \in Units : RaceUnitStart(i)
    \/ \E i \in Units : RaceTaskReturn(i)
    \/ \E i \in Units : RaceUnitSelect(i)
    \/ RaceReceive

Spec == Init /\ [][Next]_vars

\* Calls of All and Any under a fair scheduler: the calling goroutine and
\* every unit that can take a step eventually takes one, a task invoked
\* returns.  The caller's cancellation may or may not happen.
JoinInit == Init /\ fn \in {"All", "Any"}

JoinMain ==
    \/ AllCall
    \/ AllReturn
    \/ AnyCall
    \/ AnyReceive

JoinUnit(i) ==
    /\ i \in Units
    /\ \/ AllUnitStart(i)
       \/ AllUnitFinish(i)
       \/ AnyUnitStart(i)
       \/ AnyUnitFinish(i)

JoinNext ==
    \/ CallerCancel
    \/ AllCall
    \/ \E i \in Units : AllUnitStart(i)
    \/ \E i \in Units : AllUnitFinish(i)
    \/ AllReturn
    \/ AnyCall
    \/ \E i \in Units : AnyUnitStart(i)
    \/ \E i \in Units : AnyUnitFinish(i)
    \/ AnyReceive

JoinFairSpec ==
    /\ JoinInit /\ [][JoinNext]_vars
    /\ WF_vars(JoinMain)
    /\ \A i \in 1..MaxTasks : WF_vars(JoinUnit(i))

----------------------------------------------------------------------------
(* All, fail-together: the first definition in await.go, lines 28-66 *)

\* The non-nil entries of errs, in index order (await.go:54-59).
RECURSIVE CollectErrors(_, _)
CollectErrors(rs, i) ==
    IF i > Len(rs) THEN <<>>
    ELSE IF rs[i].Err # Nil
         THEN <<rs[i].Err>> \o CollectErrors(rs, i + 1)
         ELSE CollectErrors(rs, i + 1)

\* The entry: the empty call succeeds with an empty slice (<<>> stands for
\* it as for the nil slice); otherwise results and errs are made and the
\* units launched.  The scope is not looked at here.
AllTogetherCall ==
    /\ fn = "AllTogether" /\ mainpc = "idle"
    /\ ctxAtCall' = scope.caller
    /\ IF N = 0
       THEN /\ Return(Zero, Nil, <<>>, <<>>)
            /\ UNCHANGED <<upc, results>>
       ELSE /\ results' = [i \in Units |-> Result(Zero, Nil)]
            /\ Launch
            /\ mainpc' = "wait"
            /\ UNCHANGED <<retVal, retErr, retAgg, retResults>>
    /\ UNCHANGED <<doVars, stratVars>>
    /\ UNCHANGED <<fn, tasks, scope, cancelCalled, treturn, ch, recvd, errors,
                   completed>>

\* The unit's select: case <-ctx.Done(): errs[idx] = ctx.Err()
AllTogetherUnitStart(i) ==
    /\ fn = "AllTogether" /\ upc[i] = "spawned"
    /\ IF scope.caller # Nil
       THEN /\ results' = [results EXCEPT ![i] = Result(Zero, scope.caller)]
            /\ upc' = [upc EXCEPT ![i] = "done"]
            /\ completed' = Append(completed, i)
       ELSE /\ upc' = [upc EXCEPT ![i] = "running"]
            /\ UNCHANGED <<results, completed>>
    /\ UNCHANGED <<doVars, stratVars>>
    /\ UNCHANGED <<fn, tasks, scope, cancelCalled, mainpc, treturn, ch, recvd,
                   errors, retVal, retErr, retAgg, retResults, ctxAtCall>>

\* results[idx], errs[idx] = task(ctx); wg.Done()
AllTogetherUnitFinish(i) ==
    /\ fn = "AllTogether" /\ upc[i] = "running"
    /\ LET o == TaskOutcome(tasks[i], scope.caller) IN
         /\ treturn' = [treturn EXCEPT ![i] = o]
         /\ results' = [results EXCEPT ![i] = Result(o.val, o.err)]
    /\ upc' = [upc EXCEPT ![i] = "done"]
    /\ completed' = Append(completed, i)
    /\ UNCHANGED <<doVars, stratVars>>
    /\ UNCHANGED <<fn, tasks, scope, cancelCalled, mainpc, ch, recvd, errors,
                   retVal, retErr, retAgg, retResults, ctxAtCall>>

\* wg.Wait(); the errors are collected; return results with an
\* AggregateError of them when there is one, with nil otherwise.  The slice
\* returned holds the values only.
AllTogetherReturn ==
    /\ fn = "AllTogether" /\ mainpc = "wait"
    /\ \A i \in Units : upc[i] = "done"
    /\ LET errs == CollectErrors(results, 1)
           vals == [i \in Units |-> results[i].Value]
       IN  IF Len(errs) > 0
           THEN Return(Zero, AggregateError, errs, vals)
           ELSE Return(Zero, Nil, <<>>, vals)
    /\ UNCHANGED <<doVars, stratVars>>
    /\ UNCHANGED <<fn, tasks, scope, cancelCalled, upc, treturn, results, ch,
                   recvd, errors, ctxAtCall, completed>>

\* Calls of the two combinators that build an AggregateError.
AggregateInit ==
    /\ fn \in {"Any", "AllTogether"}
    /\ tasks \in UNION { TaskSeqs(k) : k \in 0..MaxTasks }
    /\ scope = [caller |-> Nil, derived |-> Nil]
    /\ cancelCalled = FALSE
    /\ mainpc = "idle"
    /\ upc = [i \in 1..Len(tasks) |-> "idle"]
    /\ treturn = [i \in 1..Len(tasks) |-> NoReturn]
    /\ results = <<>>
    /\ ch = <<>>
    /\ recvd = <<>>
    /\ errors = <<>>
    /\ retVal = Zero
    /\ retErr = Nil
    /\ retAgg = <<>>
    /\ retResults = <<>>
    /\ ctxAtCall = "none"
    /\ completed = <<>>
    /\ DoIdle(DefaultOptions)
    /\ StrategyIdle

AggregateNext ==
    \/ CallerCancel
    \/ AnyCall
    \/ \E i \in Units : AnyUnitStart(i)
    \/ \E i \in Units : AnyUnitFinish(i)
    \/ AnyReceive
    \/ AllTogetherCall
    \/ \E i \in Units : AllTogetherUnitStart(i)
    \/ \E i \in Units : AllTogetherUnitFinish(i)
    \/ AllTogetherReturn

AggregateSpec == AggregateInit /\ [][AggregateNext]_vars

----------------------------------------------------------------------------
(* Do *)

DoReturn(v, e) ==
    /\ dopc' = "returned"
    /\ doRet' = [val |-> v, err |-> e]

Event(op, n) == [op |-> op, attempt |-> n]

\* Variant of loopCond: the loop stops one attempt early.
loopCondShort(a, maxAttempts) == a < maxAttempts

\* attempt <= opts.MaxAttempts, the condition of the loop.
loopCond(a, maxAttempts) == a <= maxAttempts

\* Variant of LoopCtxErr: the scope is not checked before an invocation.
LoopCtxErrIgnored == NilErr

\* ctx.Err() as read at the head of the loop.
LoopCtxErr == ctx

\* Variant of invalidMaxAttempts: no MaxAttempts is refused.
invalidMaxAttemptsNever(m) == FALSE

\* opts.MaxAttempts <= 0, the precondition test of Do.
invalidMaxAttempts(m) == m <= 0

\* Variant of succeeded: no outcome of fn counts as a success.
succeededNever(err) == FALSE

\* err == nil after fn returned.
succeeded(err) == err = NilErr

\* Variant of nextAttempt: the loop variable is not advanced.
nextAttemptSame(a) == a

\* attempt++
nextAttempt(a) == a + 1

\* The entry of Do: the test of MaxAttempts and the start of the loop.
DoCall ==
    /\ fn = "Do" /\ dopc = "idle"
    /\ IF invalidMaxAttempts(opts.MaxAttempts)
       THEN /\ DoReturn(Zero, ErrMaxAttemptsInvalid)
            /\ UNCHANGED attempt
       ELSE /\ dopc' = "top"
            /\ attempt' = 1
            /\ UNCHANGED doRet
    /\ UNCHANGED <<opts, ctx, lastErr, delay, calls, onRetryCalls, trace,
                   cancelAt>>
    /\ UNCHANGED <<awaitVars, stratVars>>

\* The head of the loop: the loop condition, the check of the scope, and
\* the invocation of fn.
DoLoopTop ==
    /\ fn = "Do" /\ dopc = "top"
    /\ IF ~loopCond(attempt, opts.MaxAttempts)
       THEN DoReturn(Zero, RetryError(lastErr, opts.MaxAttempts))
       ELSE IF LoopCtxErr # NilErr
       THEN DoReturn(Zero, LoopCtxErr)
       ELSE /\ dopc' = "running"
            /\ UNCHANGED doRet
    /\ UNCHANGED <<opts, ctx, attempt, lastErr, delay, calls, onRetryCalls,
                   trace, cancelAt>>
    /\ UNCHANGED <<awaitVars, stratVars>>

\* fn returns out, and Do decides: success, predicate, strategy, last
\* attempt, OnRetry, and the delay of the wait it then enters.
DoFnReturn ==
    /\ fn = "Do" /\ dopc = "running"
    /\ \E out \in DoOutcomes(attempt) :
         LET err      == out.err
             asked1   == IF opts.RetryIf.isNil THEN trace
                         ELSE Append(trace, Event("RetryIf", attempt))
             asked2   == Append(asked1, Event("ShouldRetry", attempt))
         IN
         /\ calls' = Append(calls, out)
         /\ IF succeeded(err)
            THEN /\ DoReturn(out.val, NilErr)
                 /\ UNCHANGED <<lastErr, delay, onRetryCalls, trace>>
            ELSE /\ lastErr' = err
                 /\ IF ~shouldRetryError(opts, err)
                    THEN /\ DoReturn(Zero, err)
                         /\ trace' = asked1
                         /\ UNCHANGED <<delay, onRetryCalls>>
                    ELSE IF ~ShouldRetry(opts.Strategy, attempt, err)
                    THEN /\ DoReturn(Zero, err)
                         /\ trace' = asked2
                         /\ UNCHANGED <<delay, onRetryCalls>>
                    ELSE IF isLastAttempt(attempt, opts.MaxAttempts)
                    THEN /\ DoReturn(Zero, RetryError(err, opts.MaxAttempts))
                         /\ trace' = asked2
                         /\ UNCHANGED <<delay, onRetryCalls>>
                    ELSE /\ onRetryCalls' =
                              IF opts.OnRetry = "nil" THEN onRetryCalls
                              ELSE Append(onRetryCalls, <<attempt, err>>)
                         /\ delay' = calculateDelay(opts, attempt)
                         /\ dopc' = "waiting"
                         /\ trace' = asked2
                         /\ UNCHANGED doRet
    /\ UNCHANGED <<opts, ctx, attempt, cancelAt>>
    /\ UNCHANGED <<awaitVars, stratVars>>

\* Variant of TimerFires: the timer of a wait never fires.
TimerNeverFires(dl) == FALSE

\* case <-time.After(delay): the timer fires once dl has passed, and any
\* dl does pass.
TimerFires(dl) == TRUE

\* waitForRetry, case <-ctx.Done().
DoWaitCancelled ==
    /\ fn = "Do" /\ dopc = "waiting"
    /\ ctx # NilErr
    /\ DoReturn(Zero, ctx)
    /\ UNCHANGED <<opts, ctx, attempt, lastErr, delay, calls, onRetryCalls,
                   trace, cancelAt>>
    /\ UNCHANGED <<awaitVars, stratVars>>

\* waitForRetry, case <-time.After(delay), and the loop's attempt++.
DoWaitElapsed ==
    /\ fn = "Do" /\ dopc = "waiting"
    /\ TimerFires(delay)
    /\ attempt' = nextAttempt(attempt)
    /\ dopc' = "top"
    /\ UNCHANGED <<opts, ctx, lastErr, delay, calls, onRetryCalls, trace,
                   doRet, cancelAt>>
    /\ UNCHANGED <<awaitVars, stratVars>>

\* The caller cancels the scope it passed to Do, or its deadline passes.
DoCallerCancel ==
    /\ fn = "Do" /\ dopc # "returned"
    /\ ctx = NilErr
    /\ \E e \in DoCtxErrors : ctx' = e
    /\ cancelAt' = [pc |-> dopc, calls |-> Len(calls), delay |-> delay]
    /\ UNCHANGED <<opts, dopc, attempt, lastErr, delay, calls, onRetryCalls,
                   trace, doRet>>
    /\ UNCHANGED <<awaitVars, stratVars>>

DoInit ==
    /\ fn = "Do"
    /\ tasks = <<>>
    /\ scope = [caller |-> Nil, derived |-> Nil]
    /\ cancelCalled = FALSE
    /\ mainpc = "idle"
    /\ upc = <<>>
    /\ treturn = <<>>
    /\ results = <<>>
    /\ ch = <<>>
    /\ recvd = <<>>
    /\ errors = <<>>
    /\ retVal = Zero
    /\ retErr = Nil
    /\ retAgg = <<>>
    /\ retResults = <<>>
    /\ ctxAtCall = "none"
    /\ completed = <<>>
    /\ \E o \in OptionsSpace : DoIdle(o)
    /\ StrategyIdle

DoNext ==
    \/ DoCall
    \/ DoLoopTop
    \/ DoFnReturn
    \/ DoWaitCancelled
    \/ DoWaitElapsed
    \/ DoCallerCancel

DoSpec == DoInit /\ [][DoNext]_vars

\* A step of Do itself: Do is sequential code that keeps running, fn returns
\* when invoked and a wait ends.  The caller's cancellation may or may not
\* happen.
DoStep ==
    \/ DoCall
    \/ DoLoopTop
    \/ DoFnReturn
    \/ DoWaitCancelled
    \/ DoWaitElapsed

DoFairSpec == DoSpec /\ WF_vars(DoStep)

----------------------------------------------------------------------------
(* Properties *)

Returned == mainpc = "returned"

\* Unit i invoked its task and the task returned.
Ran(i) == treturn[i] # NoReturn

\* C1: a call of All on a non-empty task sequence with a scope that is not
\* cancelled at the call returns a nil function-level error and one Result
\* per task, whatever the tasks do and whenever the caller cancels; a task's
\* failure is found in the Err field of its entry.
C1_AllNeverFails ==
    (fn = "All" /\ Returned /\ N > 0 /\ ctxAtCall = Nil) =>
        /\ retErr = Nil
        /\ retAgg = <<>>
        /\ Len(retResults) = N
        /\ \A i \in Units : Ran(i) /\ treturn[i].err # Nil =>
                               retResults[i].Err = treturn[i].err

\* All has returned from a call in which one task failed, another succeeded
\* and the caller cancelled the scope after the call.
C1_Witness ==
    /\ fn = "All" /\ Returned /\ N = MaxTasks /\ ctxAtCall = Nil
    /\ scope.caller # Nil
    /\ \E i \in Units : Ran(i) /\ treturn[i].err = TaskErr(i)
    /\ \E i \in Units : Ran(i) /\ treturn[i].err = Nil
    /\ \E i \in Units : ~Ran(i)

\* C2: entry i of the slice All returns holds the outcome of input task i
\* (what the task returned, or the scope's error when the unit found the
\* scope cancelled), in every order of completion; when every task
\* succeeded every Err is nil and every Value is the task's value.
C2_AllInputOrder ==
    (fn = "All" /\ Returned /\ N > 0 /\ ctxAtCall = Nil) =>
        /\ Len(retResults) = N
        /\ \A i \in Units :
             retResults[i] = IF Ran(i)
                             THEN Result(treturn[i].val, treturn[i].err)
                             ELSE Result(Zero, scope.caller)
        /\ (\A i \in Units : Ran(i) /\ treturn[i].err = Nil) =>
             \A i \in Units : retResults[i] = Result(tasks[i].val, Nil)

\* All has returned the values of tasks that all succeeded and finished in
\* the reverse of their input order.
C2_Witness ==
    /\ fn = "All" /\ Returned /\ N = MaxTasks
    /\ \A i \in Units : Ran(i) /\ treturn[i].err = Nil
    /\ \A k \in Units : completed[k] = N + 1 - k
    /\ \A i \in Units : retResults[i].Value = TaskVal(i)

\* C3: in every Result of the slice All returns, a non-nil Err comes with
\* the zero Value.
C3_ErrImpliesZeroValue ==
    (fn = "All" /\ Returned) =>
        \A i \in 1..Len(retResults) :
            retResults[i].Err # Nil => retResults[i].Value = Zero

\* The deposit unit i makes when it deposits: its task's outcome, or the
\* derived scope's error when it found the scope cancelled before invoking.
IsDepositOf(m, i) ==
    /\ m.idx = i
    /\ IF Ran(i)
       THEN m.val = treturn[i].val /\ m.err = treturn[i].err
       ELSE m.val = Zero /\ m.err \in CtxErrors

\* C4: with a caller scope that is never cancelled, Any returns (v, nil) if
\* and only if at least one task succeeds; v is the value of the first
\* success in the order Any receives the outcomes, every outcome received
\* before it is a failure, and none of these failures is returned.
C4_AnyFirstSuccess ==
    (fn = "Any" /\ Returned /\ N > 0 /\ scope.caller = Nil) =>
        /\ retErr = Nil <=> \E i \in Units : tasks[i].err = Nil
        /\ retErr = Nil =>
             /\ recvd # <<>>
             /\ recvd[Len(recvd)].err = Nil
             /\ retVal = recvd[Len(recvd)].val
             /\ retVal = tasks[recvd[Len(recvd)].idx].val
             /\ \A k \in 1..(Len(recvd) - 1) : recvd[k].err # Nil
             /\ retAgg = <<>>

\* Any has returned the value of a task after receiving, and discarding, the
\* failure of another one; the caller never cancelled.
C4_Witness ==
    /\ fn = "Any" /\ Returned /\ N = MaxTasks /\ scope.caller = Nil
    /\ retErr = Nil /\ retVal = TaskVal(2)
    /\ Len(recvd) = 2 /\ recvd[1].err = TaskErr(1)

\* C5: when every one of the N tasks fails, Any returns the zero value and
\* an AggregateError holding exactly N errors, one per task, in the order in
\* which Any received the failures; it returns an AggregateError in no other
\* case.
C5_AnyAllFail ==
    (fn = "Any" /\ Returned /\ N > 0) =>
        LET allFailed == /\ Len(recvd) = N
                         /\ \A k \in 1..N : recvd[k].err # Nil
        IN  /\ (\A k \in 1..Len(recvd) : recvd[k].err # Nil) => allFailed
            /\ retErr = AggregateError <=> allFailed
            /\ allFailed =>
                 /\ retVal = Zero
                 /\ retAgg = [k \in 1..N |-> recvd[k].err]
                 /\ \A i \in Units : \E k \in 1..N : IsDepositOf(recvd[k], i)

\* Any has returned an AggregateError whose errors are in the reverse of
\* the tasks' input order.
C5_Witness ==
    /\ fn = "Any" /\ Returned /\ N = MaxTasks
    /\ retErr = AggregateError
    /\ retAgg = [k \in 1..N |-> TaskErr(N + 1 - k)]

\* C6: Race returns, verbatim, the value and the error of the first outcome
\* deposited on its channel, success or failure, and nothing else; outcomes
\* deposited later do not change what it returned.
C6_RaceFirstDeposit ==
    (fn = "Race" /\ Returned /\ N > 0) =>
        /\ Len(recvd) = 1
        /\ retVal = recvd[1].val /\ retErr = recvd[1].err
        /\ IsDepositOf(recvd[1], recvd[1].idx)
        /\ retAgg = <<>>

\* Race has returned the failure (with its value) of the task that settled
\* first, and the success of a slower task lies on the channel unread.
C6_Witness ==
    /\ fn = "Race" /\ Returned /\ N = MaxTasks
    /\ retErr = TaskErr(1) /\ retVal = TaskVal(1)
    /\ \E k \in 1..Len(ch) : ch[k].err = Nil

\* C7: a call of Race whose task invocations have all returned does return:
\* once every unit has finished, Race has returned or a deposit is waiting
\* on the channel for it to receive.
C7_RaceReturns ==
    (fn = "Race" /\ N > 0 /\ mainpc # "idle" /\ \A i \in Units : upc[i] = "done") =>
        (Returned \/ ch # <<>>)

\* C8: whenever Race has returned from a call with tasks, it has called
\* cancel and its derived scope is cancelled, after a success and after a
\* failure alike, so a scope-aware task still running settles with the
\* scope's error.
C8_RaceCancelsOnReturn ==
    (fn = "Race" /\ Returned /\ N > 0) =>
        /\ cancelCalled
        /\ scope.derived # Nil
        /\ \A i \in Units : upc[i] = "running" /\ tasks[i].aware =>
             TaskOutcome(tasks[i], UnitCtxErr).err = scope.derived

\* Race has returned a task's failure while a scope-aware task is still
\* running; the caller never cancelled.
C8_Witness ==
    /\ fn = "Race" /\ Returned /\ scope.caller = Nil
    /\ retErr = TaskErr(1)
    /\ \E i \in Units : upc[i] = "running" /\ tasks[i].aware

\* Any has received a success.
AnySuccessReceived == \E k \in 1..Len(recvd) : recvd[k].err = Nil

\* C9: while a task of Any is unsettled and Any has received no success,
\* Any has not called cancel, and its derived scope is cancelled only if the
\* caller's is; once Any has received a success, cancel has been called and
\* the derived scope is cancelled when Any returns.
C9_AnyCancelsOnlyOnSuccess ==
    fn = "Any" =>
        /\ ((\E i \in Units : upc[i] # "done") /\ ~AnySuccessReceived) =>
             /\ ~cancelCalled
             /\ scope.caller = Nil => scope.derived = Nil
        /\ AnySuccessReceived =>
             (Returned /\ cancelCalled /\ scope.derived # Nil)

\* Any has received the failure of one task while another task is still
\* running, and the scope is not cancelled.
C9_Witness ==
    /\ fn = "Any" /\ mainpc = "wait"
    /\ Len(recvd) >= 1 /\ recvd[1].err = TaskErr(recvd[1].idx)
    /\ \E i \in Units : upc[i] = "running"
    /\ scope.derived = Nil

\* C10: no step of Any or Race, nor of their units, changes the caller's
\* scope: whenever its state changes, the step is the caller's own
\* cancellation and nothing of the call or of its units moves in it.
C10_CallerScopeUntouched ==
    [][ (fn \in {"Any", "Race"} /\ scope'.caller # scope.caller) =>
          /\ mainpc' = mainpc
          /\ cancelCalled' = cancelCalled
          /\ upc' = upc
          /\ ch' = ch
          /\ recvd' = recvd ]_vars

\* Any or Race has called cancel and returned; the derived scope is
\* cancelled and the caller's is not.
C10_Witness ==
    /\ fn \in {"Any", "Race"} /\ Returned
    /\ cancelCalled
    /\ scope.derived = Canceled
    /\ scope.caller = Nil

\* C11: the channel of Any and Race has one slot per task and every unit
\* deposits at most once, so a deposit never blocks: whenever a unit has
\* still to deposit, before or after the call returned, the channel has a
\* free slot.
C11_DepositNeverBlocks ==
    (fn \in {"Any", "Race"} /\ mainpc # "idle") =>
        /\ ChanCap = N
        /\ Len(ch) + Len(recvd) <= Cardinality({i \in Units : upc[i] = "done"})
        /\ \A i \in Units : upc[i] # "done" => Len(ch) < ChanCap

\* Race has returned the first deposit and every other unit has since
\* deposited its outcome and finished.
C11_Witness ==
    /\ fn = "Race" /\ Returned /\ N = MaxTasks
    /\ \A i \in Units : upc[i] = "done"
    /\ Len(ch) = N - 1

\* C12: a call of All, Any or Race with no tasks returns ErrNoTasks, with
\* the zero value, no AggregateError and the nil slice; it launches no unit,
\* derives no scope and never waits.
C12_EmptyInput ==
    (N = 0 /\ mainpc # "idle") =>
        /\ Returned
        /\ retErr = ErrNoTasks
        /\ retVal = Zero /\ retAgg = <<>> /\ retResults = <<>>
        /\ upc = <<>> /\ ch = <<>> /\ results = <<>>
        /\ ~cancelCalled /\ scope.derived = Nil

\* Any has returned from a call with no tasks.
C12_Witness ==
    /\ fn = "Any" /\ N = 0 /\ Returned /\ retErr = ErrNoTasks

\* C13 as stated: every call of All with a scope already cancelled at the
\* call returns that scope's error and the nil slice and invokes no task.
C13_AllCancelledAtCall ==
    (fn = "All" /\ Returned /\ ctxAtCall \in CtxErrors) =>
        /\ retErr = ctxAtCall
        /\ retResults = <<>>
        /\ \A i \in Units : upc[i] = "idle" /\ ~Ran(i)

\* C13, amended: a call of All with at least one task and a scope already
\* cancelled at the call returns that scope's error and the nil slice and
\* invokes no task (with no tasks the error is ErrNoTasks, cancelled or
\* not); All returns a function-level error in these two cases only.
C13_AllCancelledAtCallNonEmpty ==
    (fn = "All" /\ Returned) =>
        /\ (N > 0 /\ ctxAtCall \in CtxErrors) =>
             /\ retErr = ctxAtCall
             /\ retResults = <<>>
             /\ \A i \in Units : upc[i] = "idle" /\ ~Ran(i)
        /\ (N = 0 /\ ctxAtCall \in CtxErrors) => retErr = ErrNoTasks
        /\ retErr # Nil => (N = 0 \/ ctxAtCall \in CtxErrors)

\* All has returned the error of a scope whose deadline had passed before
\* the call, without launching a unit.
C13_Witness ==
    /\ fn = "All" /\ Returned /\ N = MaxTasks
    /\ ctxAtCall = DeadlineExceeded /\ retErr = DeadlineExceeded
    /\ \A i \in Units : upc[i] = "idle"

\* C14: in All, a slot written by a finished unit is never changed again,
\* by a cancellation or by anything else; a unit that begins after the
\* scope was cancelled records the scope's error without invoking its task;
\* a task that is running settles with its own outcome unless it checks the
\* scope itself, in which case it settles with the scope's error.
C14_AllMidFlightCancel ==
    [][ fn = "All" =>
          \A i \in Units :
            /\ (upc[i] = "done") => (results'[i] = results[i] /\ upc'[i] = "done")
            /\ (upc[i] = "spawned" /\ upc'[i] # "spawned" /\ scope.caller # Nil) =>
                 /\ upc'[i] = "done"
                 /\ results'[i] = Result(Zero, scope.caller)
                 /\ ~Ran(i)'
            /\ (upc[i] = "running" /\ upc'[i] # "running") =>
                 /\ upc'[i] = "done"
                 /\ results'[i] =
                      IF tasks[i].aware /\ scope.caller # Nil
                      THEN Result(Zero, scope.caller)
                      ELSE Result(tasks[i].val, tasks[i].err) ]_vars

\* All has returned after a cancellation by the caller: the slice holds the
\* real failure of one task, the scope's error for a scope-aware task that
\* was running, and the scope's error for a unit that never invoked its
\* task.
C14_Witness ==
    /\ fn = "All" /\ Returned /\ N = MaxTasks /\ scope.caller # Nil
    /\ \E i \in Units : Ran(i) /\ retResults[i] = Result(TaskVal(i), TaskErr(i))
    /\ \E i \in Units : Ran(i) /\ tasks[i].aware
                          /\ retResults[i] = Result(Zero, scope.caller)
    /\ \E i \in Units : ~Ran(i) /\ retResults[i] = Result(Zero, scope.caller)

\* C15: All never cancels: it derives no scope and calls no cancel
\* function, no step of All or of its units changes the scope, and in a
\* call the caller does not cancel every task is invoked and settles with
\* its own outcome, whatever the other tasks returned.
C15_AllNeverCancels ==
    /\ [](fn = "All" =>
            /\ ~cancelCalled /\ scope.derived = Nil
            /\ (Returned /\ N > 0 /\ ctxAtCall = Nil /\ scope.caller = Nil) =>
                 \A i \in Units :
                   /\ treturn[i] = [val |-> tasks[i].val, err |-> tasks[i].err]
                   /\ retResults[i] = Result(tasks[i].val, tasks[i].err))
    /\ [][ (fn = "All" /\ scope' # scope) =>
             (mainpc' = mainpc /\ upc' = upc /\ results' = results) ]_vars

\* All has returned, the caller never cancelled, and the task that finished
\* first had failed while the tasks that finished after it succeeded.
C15_Witness ==
    /\ fn = "All" /\ Returned /\ N = MaxTasks /\ scope.caller = Nil
    /\ retResults[completed[1]].Err = TaskErr(completed[1])
    /\ \A k \in 2..N : retResults[completed[k]].Err = Nil

----------------------------------------------------------------------------
(* The methods of the strategies, called directly *)

\* Largest InitialDelay, Increment and Delay tried.
MaxDelayInput == 3

\* Largest MaxDelay tried.
MaxCapInput == 12

\* Largest numerator of a Multiplier tried.
MaxMultiplierInput == 3

\* Largest attempt number passed.
MaxAttemptInput == 5

DelayInputs == (0 - 1)..MaxDelayInput
MultiplierInputs ==
    { [num |-> a, den |-> b] : a \in 0..MaxMultiplierInput, b \in 1..2 }
AttemptInputs == (0 - 1)..MaxAttemptInput

StrategyInputs ==
    { ExponentialBackoff(i, m, x) :
        i \in DelayInputs, m \in MultiplierInputs, x \in 0..MaxCapInput }
      \cup { LinearBackoff(i, c) : i \in DelayInputs, c \in DelayInputs }
      \cup { ConstantDelay(d) : d \in DelayInputs }
      \cup { NoDelay }
      \cup CustomStrategies

\* The errors passed to ShouldRetry: nil, an unmarked error, the sentinel,
\* a marked error, and a marked error wrapped once more.
ErrorInputs ==
    { NilErr, ErrRetryThis, ErrPermanent, Permanent(ErrRetryThis),
      RetryError(Permanent(ErrDontRetry), 3), RetryError(ErrDontRetry, 3) }

\* strategy.NextDelay(n)
CallNextDelay ==
    /\ fn = "Strategy"
    /\ \E n \in AttemptInputs :
         call' = [method |-> "NextDelay", attempt |-> n, err |-> NilErr,
                  dl |-> NextDelay(strategy, n), ok |-> FALSE]
    /\ UNCHANGED <<awaitVars, doVars, strategy>>

\* strategy.ShouldRetry(n, e)
CallShouldRetry ==
    /\ fn = "Strategy"
    /\ \E n \in AttemptInputs, e \in ErrorInputs :
         call' = [method |-> "ShouldRetry", attempt |-> n, err |-> e,
                  dl |-> 0, ok |-> ShouldRetry(strategy, n, e)]
    /\ UNCHANGED <<awaitVars, doVars, strategy>>

StrategyInit ==
    /\ fn = "Strategy"
    /\ tasks = <<>>
    /\ scope = [caller |-> Nil, derived |-> Nil]
    /\ cancelCalled = FALSE
    /\ mainpc = "idle"
    /\ upc = <<>>
    /\ treturn = <<>>
    /\ results = <<>>
    /\ ch = <<>>
    /\ recvd = <<>>
    /\ errors = <<>>
    /\ retVal = Zero
    /\ retErr = Nil
    /\ retAgg = <<>>
    /\ retResults = <<>>
    /\ ctxAtCall = "none"
    /\ completed = <<>>
    /\ DoIdle(DefaultOptions)
    /\ strategy \in StrategyInputs
    /\ call = NoCall

StrategyNext ==
    \/ CallNextDelay
    \/ CallShouldRetry

StrategySpec == StrategyInit /\ [][StrategyNext]_vars

----------------------------------------------------------------------------
(* Properties of Do *)

DoReturned == dopc = "returned"

\* Invocation k of fn failed with an error that is not marked permanent and
\* that the RetryIf predicate and the strategy accept.
AcceptedFailure(k) ==
    LET err == calls[k].err
    IN  /\ err # NilErr
        /\ err.kind # "permanent"
        /\ opts.RetryIf.isNil \/ CallRetryIf(opts.RetryIf, err)
        /\ ShouldRetry(opts.Strategy, k, err)

\* C16: when Do has returned with MaxAttempts = m > 0, the scope was never
\* cancelled and every invocation failed with an accepted, non-permanent
\* error, fn was invoked exactly m times and Do returned the zero value
\* with RetryError{LastError: the m-th error, Attempts: m}.
C16_Exhaustion ==
    (/\ DoReturned /\ opts.MaxAttempts > 0 /\ ctx = NilErr
     /\ \A k \in 1..Len(calls) : AcceptedFailure(k)) =>
        /\ Len(calls) = opts.MaxAttempts
        /\ doRet = [val |-> Zero,
                    err |-> RetryError(calls[opts.MaxAttempts].err,
                                       opts.MaxAttempts)]

\* Do has exhausted the largest MaxAttempts under a RetryIf predicate, the
\* last two invocations failing with different errors.
C16_Witness ==
    /\ DoReturned /\ opts.MaxAttempts = MaxAttemptsBound /\ ctx = NilErr
    /\ opts.RetryIf = RetryIf({ErrRetryThis, ErrDontRetry})
    /\ Len(calls) = MaxAttemptsBound
    /\ calls[Len(calls)].err = ErrDontRetry
    /\ calls[Len(calls) - 1].err = ErrRetryThis
    /\ doRet.err = RetryError(ErrDontRetry, MaxAttemptsBound)

\* C17 as stated: for every strategy and predicate, an invocation that
\* failed with an error marked by Permanent is the last one.
C17_PermanentIsTerminal ==
    \A k \in 1..Len(calls) :
        calls[k].err.kind = "permanent" =>
            (k = Len(calls) /\ dopc # "running")

\* C18: with a built-in strategy, an invocation k that returns Permanent(e)
\* is the last one, also when k = MaxAttempts, and Do returns with it an
\* error that is no RetryError, matches ErrPermanent and matches e.
C18_PermanentStopsBuiltin ==
    opts.Strategy \in BuiltinStrategies =>
        \A k \in 1..Len(calls) :
            calls[k].err.kind = "permanent" =>
                /\ k = Len(calls)
                /\ DoReturned
                /\ doRet.val = Zero
                /\ doRet.err.kind # "retry"
                /\ Is(doRet.err, ErrPermanent)
                /\ Is(doRet.err, calls[k].err.Err)

\* Under a built-in strategy and a predicate that accepts the error, the
\* MaxAttempts-th invocation returned a permanent error after retries.
C18_Witness ==
    /\ DoReturned /\ opts.Strategy = LinearBackoff(1, 1)
    /\ opts.RetryIf = RetryIf({ErrRetryThis})
    /\ opts.MaxAttempts = MaxAttemptsBound /\ Len(calls) = MaxAttemptsBound
    /\ calls[Len(calls)].err = Permanent(ErrRetryThis)
    /\ doRet.err = Permanent(ErrRetryThis)

\* C19: when a RetryIf predicate is configured and rejects the error of
\* invocation k, that invocation is the last one, for every k up to
\* MaxAttempts, and Do returns the zero value with that very error, which
\* is no RetryError.
C19_PredicateRejection ==
    ~opts.RetryIf.isNil =>
        \A k \in 1..Len(calls) :
            (calls[k].err # NilErr /\ ~CallRetryIf(opts.RetryIf, calls[k].err)) =>
                /\ k = Len(calls)
                /\ DoReturned
                /\ doRet = [val |-> Zero, err |-> calls[k].err]
                /\ doRet.err.kind # "retry"

\* The predicate rejected the error of the MaxAttempts-th invocation after
\* accepting the errors before it.
C19_Witness ==
    /\ DoReturned /\ opts.RetryIf = RetryIf({ErrRetryThis})
    /\ opts.MaxAttempts = MaxAttemptsBound /\ Len(calls) = MaxAttemptsBound
    /\ calls[1].err = ErrRetryThis
    /\ calls[Len(calls)].err = ErrDontRetry
    /\ doRet.err = ErrDontRetry

\* C20: once the scope is cancelled while Do waits between two attempts, fn
\* is never invoked again, and when Do returns it returns the zero value
\* with the scope's error, which is no RetryError; this for every delay,
\* zero included.
C20_CancelDuringWait ==
    cancelAt.pc = "waiting" =>
        /\ Len(calls) = cancelAt.calls
        /\ dopc # "running"
        /\ DoReturned =>
             /\ doRet = [val |-> Zero, err |-> ctx]
             /\ doRet.err \in DoCtxErrors
             /\ doRet.err.kind # "retry"

\* The scope was cancelled during a wait of zero delay, the wait ended by
\* its timer all the same, and Do returned the scope's error from the head
\* of the loop.
C20_Witness ==
    /\ cancelAt.pc = "waiting" /\ cancelAt.delay = 0
    /\ DoReturned /\ attempt = cancelAt.calls + 1
    /\ doRet.err = CtxErr(Canceled)

\* The invocations of fn begun so far.
Invocations == Len(calls) + (IF dopc = "running" THEN 1 ELSE 0)

\* C21: when the scope is already cancelled at the call and MaxAttempts is
\* positive, fn is never invoked, OnRetry is never called, and Do returns
\* the zero value with the scope's error.
C21_CancelledAtCall ==
    (cancelAt.pc = "idle" /\ opts.MaxAttempts > 0) =>
        /\ Invocations = 0
        /\ onRetryCalls = <<>>
        /\ dopc # "waiting"
        /\ DoReturned => doRet = [val |-> Zero, err |-> ctx]

\* Do, given an OnRetry function and several attempts, has returned the
\* error of a scope whose deadline had passed before the call.
C21_Witness ==
    /\ DoReturned /\ cancelAt.pc = "idle"
    /\ opts.MaxAttempts = MaxAttemptsBound /\ opts.OnRetry = "record"
    /\ doRet.err = CtxErr(DeadlineExceeded)

\* C22: with MaxAttempts <= 0, fn is never invoked and Do returns the zero
\* value with ErrMaxAttemptsInvalid, whatever the strategy and the
\* predicate, and also when the scope is already cancelled.
C22_InvalidMaxAttempts ==
    opts.MaxAttempts <= 0 =>
        /\ Invocations = 0
        /\ dopc \in {"idle", "returned"}
        /\ DoReturned => doRet = [val |-> Zero, err |-> ErrMaxAttemptsInvalid]

\* Do was called with MaxAttempts = 0 and a scope already cancelled, and
\* returned ErrMaxAttemptsInvalid.
C22_Witness ==
    /\ DoReturned /\ opts.MaxAttempts = 0
    /\ cancelAt.pc = "idle" /\ ctx = CtxErr(Canceled)
    /\ doRet.err = ErrMaxAttemptsInvalid

\* C23: an invocation k that succeeds is the last one, every invocation
\* before it failed, and Do returns with it the value of invocation k and
\* a nil error.
C23_Success ==
    \A k \in 1..Len(calls) :
        calls[k].err = NilErr =>
            /\ k = Len(calls) /\ k <= opts.MaxAttempts
            /\ \A j \in 1..(k - 1) : calls[j].err # NilErr
            /\ DoReturned
            /\ doRet = [val |-> calls[k].val, err |-> NilErr]
            /\ doRet.val = SuccessVal(k)

\* The MaxAttempts-th invocation succeeded after the earlier ones failed.
C23_Witness ==
    /\ DoReturned /\ ctx = NilErr
    /\ opts.MaxAttempts = MaxAttemptsBound /\ Len(calls) = MaxAttemptsBound
    /\ calls[1].err = ErrRetryThis
    /\ doRet = [val |-> SuccessVal(MaxAttemptsBound), err |-> NilErr]

\* C24: in every state, for every strategy, predicate and cancellation
\* timing, the invocations of fn begun are at most MaxAttempts (none when
\* MaxAttempts is not positive).
C24_MaxAttemptsCaps ==
    /\ Invocations <= (IF opts.MaxAttempts > 0 THEN opts.MaxAttempts ELSE 0)
    /\ attempt <= (IF opts.MaxAttempts > 0 THEN opts.MaxAttempts ELSE 0)

\* Under a custom strategy that always continues, the MaxAttempts-th
\* invocation is running, the earlier ones having failed with permanent
\* errors.
C24_Witness ==
    /\ opts.Strategy = CustomStrategy("nil", "nil")
    /\ opts.MaxAttempts = MaxAttemptsBound
    /\ dopc = "running" /\ Invocations = MaxAttemptsBound
    /\ \A k \in 1..Len(calls) : calls[k].err = Permanent(ErrRetryThis)

\* How Do ended: by cancellation (or the refusal of MaxAttempts) before or
\* between invocations, or by the outcome of its last invocation.
EndedByOutcome ==
    /\ DoReturned
    /\ Len(calls) > 0
    /\ doRet.err \notin DoCtxErrors

----------------------------------------------------------------------------
(* Properties of the strategies *)

RECURSIVE Pow(_, _)
Pow(b, e) == IF e <= 0 THEN 1 ELSE b * Pow(b, e - 1)

Min(a, b) == IF a <= b THEN a ELSE b

\* The whole part of p / q, for q > 0.
Whole(p, q) == IF p >= 0 THEN p \div q ELSE 0 - ((0 - p) \div q)

\* strategy.NextDelay was called on an ExponentialBackoff with
\* InitialDelay <= MaxDelay and Multiplier >= 1, for an attempt n >= 1.
ExponentialCall ==
    /\ call.method = "NextDelay"
    /\ strategy.type = "ExponentialBackoff"
    /\ strategy.InitialDelay <= strategy.MaxDelay
    /\ strategy.Multiplier.num >= strategy.Multiplier.den
    /\ call.attempt >= 1

\* C26 as stated: the delay returned is min(InitialDelay *
\* Multiplier^(n-1), MaxDelay), read as a duration (the whole part of the
\* product).
C26_ExponentialClosedForm ==
    ExponentialCall =>
        call.dl = Min(Whole(strategy.InitialDelay
                              * Pow(strategy.Multiplier.num, call.attempt - 1),
                            Pow(strategy.Multiplier.den, call.attempt - 1)),
                      strategy.MaxDelay)

\* C26, amended: for 0 <= InitialDelay <= MaxDelay and Multiplier >= 1 the
\* delay never exceeds MaxDelay, a delay equal to MaxDelay is followed by
\* MaxDelay at the next attempt, and when the Multiplier is a whole number
\* the delay equals min(InitialDelay * Multiplier^(n-1), MaxDelay); 100ms,
\* 2, 1s yield 100ms, 200ms, 400ms, 800ms, 1s for attempts 1..5.
C26_ExponentialIntegralMultiplier ==
    /\ (ExponentialCall /\ strategy.InitialDelay >= 0) =>
         /\ call.dl <= strategy.MaxDelay
         /\ call.dl = strategy.MaxDelay =>
              NextDelay(strategy, call.attempt + 1) = strategy.MaxDelay
         /\ strategy.Multiplier.num % strategy.Multiplier.den = 0 =>
              call.dl = Min(strategy.InitialDelay
                              * Pow(strategy.Multiplier.num
                                      \div strategy.Multiplier.den,
                                    call.attempt - 1),
                            strategy.MaxDelay)
    /\ [n \in 1..5 |->
          NextDelay(ExponentialBackoff(100000000, [num |-> 2, den |-> 1],
                                       1000000000), n)]
         = <<100000000, 200000000, 400000000, 800000000, 1000000000>>

\* NextDelay returned the cap for an attempt whose unclamped delay, 1 * 2^3,
\* lies above it.
C26_Witness ==
    /\ strategy = ExponentialBackoff(1, [num |-> 2, den |-> 1], 3)
    /\ call.method = "NextDelay" /\ call.attempt = 4
    /\ call.dl = 3

----------------------------------------------------------------------------
(* Properties of the whole package *)

\* Calls of All, Any, Race and Do.
PackageInit == Init \/ DoInit
PackageNext == Next \/ DoNext
PackageSpec == PackageInit /\ [][PackageNext]_vars

\* A combinator was called with tasks and a scope already cancelled, and
\* has returned.
JoinCancelledAtCall ==
    /\ fn \in {"All", "Any", "Race"} /\ Returned
    /\ N > 0 /\ ctxAtCall \in CtxErrors

\* Do, with a valid MaxAttempts, has returned after the scope was cancelled
\* before the call or between two attempts.
DoCancelledBetweenAttempts ==
    /\ fn = "Do" /\ DoReturned
    /\ opts.MaxAttempts > 0
    /\ cancelAt.pc \in {"idle", "top", "waiting"}

\* C28 as stated: a call of All, Any, Race or Do that ends because the
\* scope was cancelled before any task outcome was produced returns the
\* scope's error itself, never an AggregateError or a RetryError.
C28_CancellationVerbatim ==
    /\ JoinCancelledAtCall => (retErr = ctxAtCall /\ retAgg = <<>>)
    /\ DoCancelledBetweenAttempts => doRet.err = ctx

\* C28, amended: All, Race and Do return the scope's error itself (with the
\* zero value or the nil slice); Any returns an AggregateError that holds
\* the scope's error once per task.
C28_CancellationVerbatimButAny ==
    /\ (JoinCancelledAtCall /\ fn = "All") =>
         (retErr = ctxAtCall /\ retResults = <<>>)
    /\ (JoinCancelledAtCall /\ fn = "Race") =>
         (retErr = ctxAtCall /\ retVal = Zero)
    /\ (JoinCancelledAtCall /\ fn = "Any") =>
         /\ retErr = AggregateError /\ retVal = Zero
         /\ retAgg = [i \in 1..N |-> ctxAtCall]
    /\ DoCancelledBetweenAttempts =>
         /\ doRet = [val |-> Zero, err |-> ctx]
         /\ doRet.err \in DoCtxErrors

\* Any, called with a cancelled scope, has returned an AggregateError of
\* the scope's error.
C28_Witness ==
    /\ fn = "Any" /\ Returned /\ N = MaxTasks
    /\ ctxAtCall = Canceled
    /\ retErr = AggregateError
    /\ retAgg = [i \in 1..N |-> Canceled]

\* C29 as stated: once every unit of a call that passed its preconditions
\* has finished, every task has been invoked (here even in calls whose
\* caller never cancels).
C29_EveryTaskInvoked ==
    (/\ fn \in {"All", "Any", "Race"} /\ N > 0 /\ mainpc # "idle"
     /\ scope.caller = Nil
     /\ \A i \in Units : upc[i] = "done") =>
        \A i \in Units : Ran(i)

\* C29, amended: every task is invoked at most once (a unit enters its
\* task only from its start, never again, and what the task returned is
\* recorded once); a unit finishes without invoking its task only when it
\* found its scope cancelled, by the caller or, in Any and Race, by the
\* call itself after the deciding deposit; in All, when the caller never
\* cancels, every task has been invoked when All returns.
C29_AtMostOnce ==
    /\ [][ (fn # "Do" /\ fn # "Strategy") =>
             \A i \in Units :
               /\ (upc'[i] = "running" /\ upc[i] # "running") => upc[i] = "spawned"
               /\ upc[i] \in {"running", "settled", "done"} =>
                    upc'[i] \notin {"idle", "spawned"}
               /\ upc[i] \in {"settled", "done"} => upc'[i] # "running"
               /\ treturn'[i] # treturn[i] =>
                    (upc[i] = "running" /\ treturn[i] = NoReturn) ]_vars
    /\ [](fn \in {"All", "Any", "Race"} =>
            /\ \A i \in Units :
                 (upc[i] = "done" /\ ~Ran(i)) => UnitCtxErr # Nil
            /\ (fn = "All" /\ Returned /\ N > 0 /\ scope.caller = Nil) =>
                 \A i \in Units : Ran(i))

\* Race has returned the outcome of one task; the caller never cancelled,
\* and another unit, started after Race's own cancel, finished without
\* invoking its task.
C29_Witness ==
    /\ fn = "Race" /\ Returned /\ N = MaxTasks /\ scope.caller = Nil
    /\ \A i \in Units : upc[i] = "done"
    /\ \E i \in Units : Ran(i)
    /\ \E i \in Units : ~Ran(i)

\* A combinator was called with tasks and has returned, and the caller
\* never cancelled the scope.
ReturnedUncancelled ==
    /\ fn \in {"All", "Any", "Race"} /\ Returned /\ N > 0
    /\ ctxAtCall = Nil /\ scope.caller = Nil

\* What the call returns when its units run one after the other in input
\* order: <<value, error, Errors of the AggregateError, slice>>.
Succeeding == { i \in Units : tasks[i].err = Nil }
FirstSucceeding == CHOOSE i \in Succeeding : \A j \in Succeeding : i <= j
InOrderReturn ==
    CASE fn = "All" ->
           <<Zero, Nil, <<>>,
             [i \in 1..N |-> Result(tasks[i].val, tasks[i].err)]>>
      [] fn = "Any" ->
           IF Succeeding # {}
           THEN <<tasks[FirstSucceeding].val, Nil, <<>>, <<>>>>
           ELSE <<Zero, AggregateError, [i \in 1..N |-> tasks[i].err], <<>>>>
      [] fn = "Race" -> <<tasks[1].val, tasks[1].err, <<>>, <<>>>>

\* C30 as stated: with an uncancelled scope the result of a call is the
\* same in every interleaving, hence the one of the interleaving in which
\* the units run in input order.
C30_Deterministic ==
    ReturnedUncancelled =>
        <<retVal, retErr, retAgg, retResults>> = InOrderReturn

\* C30, amended: with an uncancelled scope All returns the same slice in
\* every interleaving; Any returns the value of one of the succeeding
\* tasks, whichever deposits first, or, when no task succeeds, an
\* AggregateError whose Errors are the tasks' errors in the order of their
\* deposits; Race returns the outcome of one of the tasks, whichever
\* deposits first.  So two calls of Any or Race return equal results for
\* sure only when one task alone can decide the call.
C30_DeterministicAllOnly ==
    ReturnedUncancelled =>
        /\ fn = "All" => <<retVal, retErr, retAgg, retResults>> = InOrderReturn
        /\ (fn = "Any" /\ Succeeding # {}) =>
             /\ retErr = Nil /\ retAgg = <<>>
             /\ \E i \in Succeeding : retVal = tasks[i].val
             /\ Cardinality(Succeeding) = 1 => retVal = InOrderReturn[1]
        /\ (fn = "Any" /\ Succeeding = {}) =>
             /\ retErr = AggregateError /\ retVal = Zero
             /\ Len(retAgg) = N
             /\ \A i \in Units : \E k \in 1..N : retAgg[k] = tasks[i].err
        /\ fn = "Race" =>
             \E i \in Units : <<retVal, retErr>> = <<tasks[i].val, tasks[i].err>>
        /\ N = 1 => <<retVal, retErr, retAgg, retResults>> = InOrderReturn

\* Any has returned the value of its last task although its first task
\* succeeds too.
C30_Witness ==
    /\ fn = "Any" /\ ReturnedUncancelled /\ N = MaxTasks
    /\ tasks[1].err = Nil /\ tasks[N].err = Nil
    /\ retVal = tasks[N].val /\ retVal # tasks[1].val

----------------------------------------------------------------------------
(* Further properties of the combinators *)

\* C31: in All, slot i of the result storage changes only in the step in
\* which unit i finishes, which is a step of no other unit and happens
\* once; every unit that finishes writes its slot; and when All returns a
\* slice every unit has finished, no task is running, and the slice is the
\* storage as the units left it.
C31_AllStorageRaceFree ==
    /\ [][ (fn = "All" /\ mainpc = "wait") =>
             \A i \in Units :
               /\ results'[i] # results[i] =>
                    /\ upc[i] \in {"spawned", "running"}
                    /\ upc'[i] = "done"
                    /\ \A j \in Units \ {i} :
                         upc'[j] = upc[j] /\ results'[j] = results[j]
               /\ (upc[i] # "done" /\ upc'[i] = "done") =>
                    results'[i] # results[i] ]_vars
    /\ [](fn = "All" /\ Returned /\ N > 0 =>
            IF retErr = Nil
            THEN /\ \A i \in Units : upc[i] = "done"
                 /\ retResults = results
                 /\ Len(completed) = N
            ELSE \A i \in Units : upc[i] = "idle")

\* All has returned the slice in input order although the last unit
\* finished first and the first one last.
C31_Witness ==
    /\ fn = "All" /\ Returned /\ N = MaxTasks /\ retErr = Nil
    /\ completed[1] = N /\ completed[N] = 1
    /\ \A i \in Units : Ran(i) /\ retResults[i] = Result(tasks[i].val, tasks[i].err)

\* The error recorded for a unit that has finished: what its task returned,
\* or the scope's error when the unit found the scope cancelled.
UnitErrors ==
    IF fn = "Any" THEN { recvd[k].err : k \in 1..Len(recvd) } \ {Nil}
    ELSE { results[i].Err : i \in DOMAIN results } \ {Nil}

\* C32: an AggregateError returned by Any or by the fail-together All holds
\* at least one error, every error it holds is the non-nil error recorded
\* for a unit (of its task, or of the cancelled scope when the task was
\* skipped), and none is returned when every task was invoked and
\* succeeded; a return without AggregateError carries no Errors.
C32_AggregateNeverEmpty ==
    (fn \in {"Any", "AllTogether"} /\ Returned) =>
        /\ retErr = AggregateError =>
             /\ Len(retAgg) >= 1
             /\ \A k \in 1..Len(retAgg) : retAgg[k] \in UnitErrors
             /\ \E i \in Units : ~Ran(i) \/ treturn[i].err # Nil
        /\ retErr # AggregateError => retAgg = <<>>
        /\ N = 0 => retErr # AggregateError

\* The fail-together All has returned an AggregateError holding the one
\* error of a call in which the other tasks succeeded.
C32_Witness ==
    /\ fn = "AllTogether" /\ Returned /\ N = MaxTasks /\ scope.caller = Nil
    /\ retErr = AggregateError
    /\ retAgg = <<TaskErr(N)>>
    /\ \A i \in 1..(N - 1) : retResults[i] = TaskVal(i)

----------------------------------------------------------------------------
(* Further properties of Do *)

\* Decision op was consulted for the error of invocation k.
EventAt(op, k) == \E p \in DOMAIN trace : trace[p] = Event(op, k)

\* The RetryIf predicate is set and rejects the error of invocation k.
PredicateRejects(k) ==
    /\ calls[k].err # NilErr
    /\ ~opts.RetryIf.isNil
    /\ ~CallRetryIf(opts.RetryIf, calls[k].err)

\* The strategy, asked about invocation k and its error, says no: a custom
\* strategy through its ShouldRetryFunc, a built-in one for a permanent
\* error.
StrategyRefuses(k) ==
    LET st  == opts.Strategy
        err == calls[k].err
    IN  /\ err # NilErr
        /\ ~PredicateRejects(k)
        /\ IF st.type = "CustomStrategy"
           THEN /\ st.ShouldRetryFunc # "nil"
                /\ ~CallShouldRetryFunc(st.ShouldRetryFunc, k, err)
           ELSE Is(err, ErrPermanent)

\* C33: after a failed invocation k the predicate, when there is one, is
\* consulted first and the strategy directly after it; a rejection by the
\* predicate ends Do with the raw error without the strategy being
\* consulted for k, and a rejection by the strategy ends Do with the raw
\* error, also when k is the MaxAttempts-th invocation: the strategy is
\* asked before the test for the last attempt.
C33_DecisionOrder ==
    \A k \in 1..Len(calls) :
        LET err == calls[k].err IN
        err # NilErr =>
          /\ ~opts.RetryIf.isNil => EventAt("RetryIf", k)
          /\ opts.RetryIf.isNil => ~EventAt("RetryIf", k)
          /\ \A q \in DOMAIN trace :
               (trace[q] = Event("ShouldRetry", k) /\ ~opts.RetryIf.isNil) =>
                   q > 1 /\ trace[q - 1] = Event("RetryIf", k)
          /\ PredicateRejects(k) =>
               /\ ~EventAt("ShouldRetry", k)
               /\ DoReturned /\ doRet = [val |-> Zero, err |-> err]
          /\ ~PredicateRejects(k) => EventAt("ShouldRetry", k)
          /\ StrategyRefuses(k) =>
               DoReturned /\ doRet = [val |-> Zero, err |-> err]

\* The predicate accepted two failures and rejected the third, which was
\* the MaxAttempts-th: the strategy was asked twice, and the raw error came
\* back.
C33_Witness ==
    /\ DoReturned /\ opts.MaxAttempts = 3 /\ Len(calls) = 3
    /\ opts.RetryIf = RetryIf({ErrRetryThis})
    /\ calls[3].err = ErrDontRetry
    /\ doRet.err = ErrDontRetry
    /\ trace = << Event("RetryIf", 1), Event("ShouldRetry", 1),
                  Event("RetryIf", 2), Event("ShouldRetry", 2),
                  Event("RetryIf", 3) >>

\* C34: when the strategy refuses the error of invocation k, Do has
\* returned the zero value and that error after exactly k invocations,
\* OnRetry was called for the k - 1 earlier failures only, and the last
\* delay computed is the one of attempt k - 1.
C34_StrategyRefusal ==
    \A k \in 1..Len(calls) :
        StrategyRefuses(k) =>
          /\ Len(calls) = k
          /\ DoReturned
          /\ doRet = [val |-> Zero, err |-> calls[k].err]
          /\ doRet.err.kind # "retry"
          /\ \A p \in DOMAIN onRetryCalls : onRetryCalls[p][1] < k
          /\ opts.OnRetry # "nil" => Len(onRetryCalls) = k - 1
          /\ delay = IF k = 1 THEN 0 ELSE calculateDelay(opts, k - 1)

\* A custom strategy that allows only attempts below AttemptLimit refused
\* the error of invocation AttemptLimit while attempts remained.
C34_Witness ==
    /\ DoReturned
    /\ opts.Strategy = CustomStrategy("attempt", "attemptBelowLimit")
    /\ opts.MaxAttempts = MaxAttemptsBound /\ opts.OnRetry = "record"
    /\ Len(calls) = AttemptLimit /\ AttemptLimit < opts.MaxAttempts
    /\ StrategyRefuses(AttemptLimit)
    /\ doRet.err = ErrRetryThis
    /\ Len(onRetryCalls) = AttemptLimit - 1

\* C35: a RetryError returned by Do follows exactly MaxAttempts invocations
\* that all failed with errors the predicate and the strategy accepted, has
\* Attempts = MaxAttempts and the last invocation's error as LastError, and
\* is not returned after a cancellation Do observed, after a predicate
\* rejection, or when an invocation failed with a permanent error.
C35_RetryErrorOnlyOnExhaustion ==
    (DoReturned /\ doRet.err.kind = "retry") =>
        LET m == opts.MaxAttempts IN
        /\ Len(calls) = m
        /\ \A k \in 1..m :
             /\ calls[k].err # NilErr
             /\ ~PredicateRejects(k)
             /\ ~StrategyRefuses(k)
        /\ doRet = [val |-> Zero, err |-> RetryError(calls[m].err, m)]
        /\ cancelAt.pc \in {"none", "running"}
        /\ cancelAt.pc = "running" => cancelAt.calls = m - 1
        /\ \A k \in 1..m : ~Is(calls[k].err, ErrPermanent)

\* C37: when the scope is cancelled during the MaxAttempts-th invocation
\* and that invocation fails with an error the predicate and the strategy
\* accept, Do has returned a RetryError with Attempts = MaxAttempts and
\* that error, not the scope's error.
C37_CancelDuringFinalInvocation ==
    LET m == opts.MaxAttempts IN
    ( /\ cancelAt.pc = "running" /\ cancelAt.calls = m - 1
      /\ Len(calls) = m
      /\ calls[m].err # NilErr
      /\ ~PredicateRejects(m) /\ ~StrategyRefuses(m) ) =>
        /\ DoReturned
        /\ doRet = [val |-> Zero, err |-> RetryError(calls[m].err, m)]
        /\ doRet.err \notin DoCtxErrors

\* The scope was cancelled during the third of three invocations, and Do
\* returned the RetryError.
C37_Witness ==
    /\ DoReturned /\ opts.MaxAttempts = MaxAttemptsBound
    /\ ctx = CtxErr(Canceled)
    /\ cancelAt.pc = "running" /\ cancelAt.calls = MaxAttemptsBound - 1
    /\ doRet.err = RetryError(ErrRetryThis, MaxAttemptsBound)

----------------------------------------------------------------------------
(* Further properties of the strategies *)

\* C36: NextDelay(n) of an ExponentialBackoff with MaxDelay > 0 and
\* Multiplier >= 0 is at most MaxDelay for every n >= 1, also for n = 1 and
\* for an InitialDelay above MaxDelay.
C36_MaxDelayIsMaximum ==
    ( /\ call.method = "NextDelay"
      /\ strategy.type = "ExponentialBackoff"
      /\ strategy.MaxDelay > 0
      /\ strategy.Multiplier.num >= 0
      /\ call.attempt >= 1 ) =>
        call.dl <= strategy.MaxDelay

----------------------------------------------------------------------------
(* Termination *)

\* C38: Do eventually returns, whatever MaxAttempts, the strategy, the
\* predicate and the outcomes of fn are and whenever the caller cancels,
\* given that every invocation of fn returns and every wait ends.
C38_DoTerminates == <>DoReturned

\* Do returned the scope's error at the head of the third attempt, after
\* two failures and a wait during which the deadline passed.
C38_Witness ==
    /\ DoReturned /\ opts.MaxAttempts = MaxAttemptsBound
    /\ Len(calls) = 2 /\ attempt = 3
    /\ cancelAt.pc = "waiting"
    /\ doRet.err = CtxErr(DeadlineExceeded)

\* C39: a call of All or of Any eventually returns, in every interleaving
\* of the units and whenever the caller cancels, given that every task
\* invoked returns.
C39_JoinsTerminate == <>(fn \in {"All", "Any"} /\ Returned)

\* Any returned after receiving the failures of all its tasks, the caller
\* having cancelled after the call.
C39_Witness ==
    /\ fn = "Any" /\ Returned /\ N = MaxTasks
    /\ ctxAtCall = Nil /\ scope.caller # Nil
    /\ Len(recvd) = N /\ retErr = AggregateError

----------------------------------------------------------------------------
(* The permanent marker: Permanent, IsPermanentError and errors.Is called
   directly, as in TestPermanentError *)

MaxWrapDepth == 2

\* The errors a caller starts from: nil, errors made by errors.New, the
\* sentinel itself, and a RetryError around an unmarked error.
BaseErrors ==
    { NilErr, ErrRetryThis, ErrDontRetry, ErrPermanent,
      RetryError(ErrDontRetry, 1) }

\* The targets errors.Is is asked about.
IsTargets == { ErrPermanent, ErrRetryThis, ErrDontRetry, ErrMaxAttemptsInvalid }

\* call in this specification: err is the error the caller started from,
\* res the error in hand, marked whether Permanent has wrapped it, depth the
\* number of RetryErrors put around it; target and ok are the argument and
\* the answer of the last test.
NoErrorCall ==
    [method |-> "none", err |-> NilErr, res |-> NilErr, marked |-> FALSE,
     depth |-> 0, target |-> NilErr, ok |-> FALSE]

\* err := errors.New(...), or another unmarked error
NewError ==
    /\ fn = "Errors"
    /\ \E e \in BaseErrors :
         call' = [NoErrorCall EXCEPT !.method = "New", !.err = e, !.res = e]
    /\ UNCHANGED <<awaitVars, doVars, strategy>>

\* permErr := Permanent(err)
CallPermanent ==
    /\ fn = "Errors"
    /\ \E e \in BaseErrors :
         call' = [NoErrorCall EXCEPT !.method = "Permanent", !.err = e,
                                     !.res = Permanent(e),
                                     !.marked = (e # NilErr)]
    /\ UNCHANGED <<awaitVars, doVars, strategy>>

\* The error in hand becomes the LastError of a RetryError.
WrapRetryError ==
    /\ fn = "Errors"
    /\ call.method # "none" /\ call.res # NilErr
    /\ call.depth < MaxWrapDepth
    /\ \E n \in 1..MaxAttemptsBound :
         call' = [call EXCEPT !.method = "RetryError",
                              !.res = RetryError(call.res, n),
                              !.depth = call.depth + 1]
    /\ UNCHANGED <<awaitVars, doVars, strategy>>

\* IsPermanentError(res)
CallIsPermanentError ==
    /\ fn = "Errors"
    /\ call.method # "none"
    /\ call' = [call EXCEPT !.method = "IsPermanentError",
                            !.target = ErrPermanent,
                            !.ok = IsPermanentError(call.res)]
    /\ UNCHANGED <<awaitVars, doVars, strategy>>

\* errors.Is(res, t), for a target or the error the caller started from
CallIs ==
    /\ fn = "Errors"
    /\ call.method # "none"
    /\ \E t \in IsTargets \cup ({call.err} \ {NilErr}) :
         call' = [call EXCEPT !.method = "Is", !.target = t,
                              !.ok = Is(call.res, t)]
    /\ UNCHANGED <<awaitVars, doVars, strategy>>

ErrorInit ==
    /\ fn = "Errors"
    /\ tasks = <<>>
    /\ scope = [caller |-> Nil, derived |-> Nil]
    /\ cancelCalled = FALSE
    /\ mainpc = "idle"
    /\ upc = <<>>
    /\ treturn = <<>>
    /\ results = <<>>
    /\ ch = <<>>
    /\ recvd = <<>>
    /\ errors = <<>>
    /\ retVal = Zero
    /\ retErr = Nil
    /\ retAgg = <<>>
    /\ retResults = <<>>
    /\ ctxAtCall = "none"
    /\ completed = <<>>
    /\ DoIdle(DefaultOptions)
    /\ strategy = NoDelay
    /\ call = NoErrorCall

ErrorNext ==
    \/ NewError
    \/ CallPermanent
    \/ WrapRetryError
    \/ CallIsPermanentError
    \/ CallIs

ErrorSpec == ErrorInit /\ [][ErrorNext]_vars

\* What Permanent returns, and what the tests say of an error Permanent
\* has wrapped, however many RetryErrors are around it.
MarkerHolds ==
    /\ call.method = "Permanent" =>
         /\ call.err = NilErr => call.res = NilErr
         /\ call.err # NilErr =>
              call.res # call.err /\ call.res.kind = "permanent"
    /\ (call.marked /\ call.method = "IsPermanentError") => call.ok
    /\ (call.marked /\ call.method = "Is"
          /\ call.target \in {ErrPermanent, call.err}) => call.ok

\* C40 as stated: Permanent(nil) is nil, a marked error matches the
\* sentinel and the error it wraps, also inside RetryErrors, and
\* IsPermanentError is false for every error Permanent has not wrapped.
C40_PermanentMarker ==
    /\ MarkerHolds
    /\ (call.method = "IsPermanentError" /\ ~call.marked) => ~call.ok

\* C40, amended: Permanent(nil) is nil; for a non-nil e, Permanent(e)
\* matches the sentinel (IsPermanentError is true) and still matches e,
\* also when wrapped again as the LastError of RetryErrors;
\* IsPermanentError is false for nil and for an error that was never
\* marked and does not hold the sentinel, and true for the sentinel
\* ErrPermanent itself, marked or not.
C40_PermanentMarkerOrSentinel ==
    /\ MarkerHolds
    /\ (call.method = "IsPermanentError" /\ ~call.marked) =>
         (call.ok <=> call.err = ErrPermanent)

\* A marked error, wrapped as the LastError of two RetryErrors, was found
\* to match the error it was made from.
C40_Witness ==
    /\ call.method = "Is" /\ call.marked /\ call.depth = MaxWrapDepth
    /\ call.err = ErrRetryThis /\ call.target = ErrRetryThis
    /\ call.res = RetryError(RetryError(Permanent(ErrRetryThis), 3), 1)
    /\ call.ok

====
